---- MODULE Spec2Model ----
(***************************************************************************)
(* A model of cpap-megascore's core:                                       *)
(*   - AnalysisEngine   (src/js/analysis/engine.js)                        *)
(*   - EDFParser.parse  (src/js/parsers/edf.js)                            *)
(*   - WobbleAnalyzer.process                                              *)
(*                      (src/js/analysis/algorithms/wobble.js)             *)
(* Four specifications share the module.  SpecEngine and SpecEDF drive     *)
(* their own component and leave the others idle.  SpecSeg runs the breath *)
(* segmentation scan of process on every short waveform; SpecProcess runs  *)
(* the whole of process on the waveforms of ProcessInputs.                 *)
(***************************************************************************)
EXTENDS Integers, Sequences, FiniteSets, TLC

VARIABLES
    analyzers,   \* AnalysisEngine.analyzers: the registered tools, in order
    lastCall,    \* the engine call that ran last: its name, argument, registry before
    ret,         \* what that call gave back to its caller
    flowData,         \* WobbleAnalyzer.process: the flow waveform it was given
    samplingRate,     \* ... and the sampling rate, in Hz
    segPc,            \* where process stands: "idle", "scan", "scanned"
    segI,             \* the scan loop's index i
    breaths,          \* the breaths array
    inInspiration,    \* the scan's inInspiration flag
    inspirationStart, \* the scan's inspirationStart
    currentBreath,    \* the scan's currentBreath: 0 for null, else its place in breaths
    settings,         \* process: the settings object it was given
    flScores,         \* the flatness scores pushed, each with the breath it came from
    qualifying,       \* the times of the breaths that passed the arousal threshold test
    arousalList,      \* the arousalList array: the times recorded
    mvI,              \* the window loop's index i
    minuteVent,       \* the minuteVent array
    fftCalls,         \* every call of fft: the length of its input, whether it re-padded
    totalPower,       \* the totalPower of the spectrum
    periodicityIndex, \* the periodicityIndex variable
    result,           \* the object process returned
    container,        \* the recording that was laid out in the buffer
    buffer,           \* EDFParser.parse: the ArrayBuffer it is given
    edfPc,            \* "idle", "loaded" (parse not yet called), "parsed"
    parsed            \* what parse returned, or that it raised

engineVars == <<analyzers, lastCall, ret>>

segVars == <<flowData, samplingRate, segPc, segI, breaths, inInspiration,
             inspirationStart, currentBreath>>

procVars == <<settings, flScores, qualifying, arousalList, mvI, minuteVent,
              fftCalls, totalPower, periodicityIndex, result>>

edfVars == <<container, buffer, edfPc, parsed>>

vars == <<analyzers, lastCall, ret, flowData, samplingRate, segPc, segI, breaths,
          inInspiration, inspirationStart, currentBreath,
          settings, flScores, qualifying, arousalList, mvI, minuteVent,
          fftCalls, totalPower, periodicityIndex, result,
          container, buffer, edfPc, parsed>>

(***************************************************************************)
(* Bounds of the model.                                                    *)
(***************************************************************************)
MaxAnalyzers == 2
MaxFlowLen == 6
MaxSignals == 2
MaxRecords == 2
MaxInspLen == 10
MaxFreeBreaths == 5
MaxWindows == 9

(***************************************************************************)
(* JavaScript objects are functions whose DOMAIN is the set of own keys,   *)
(* so a missing field is a key outside the DOMAIN.                         *)
(***************************************************************************)
Has(obj, key) == key \in DOMAIN obj

\* results[k] = v on a plain object: adds the key or overwrites it.
SetKey(obj, key, val) ==
    [x \in (DOMAIN obj) \cup {key} |-> IF x = key THEN val ELSE obj[x]]

EmptyObject == [x \in {} |-> 0]

(***************************************************************************)
(* JavaScript numbers.  A number is [k, n, d]: k = "fin" is the rational   *)
(* n/d in lowest terms with d > 0, k = "inf" is Infinity with the sign n,  *)
(* k = "nan" is NaN.  Arithmetic is exact on the finite values (rounding   *)
(* of doubles and the sign of zero are left out) and follows IEEE 754 on   *)
(* NaN, Infinity and division by zero.  The steps of process after the     *)
(* scan use the operations FAdd, FSub, FMul and FDiv further down, which   *)
(* keep apart the results a double holds exactly and those it rounds.      *)
(***************************************************************************)
Abs(x) == IF x < 0 THEN -x ELSE x

Sign(x) == IF x < 0 THEN -1 ELSE IF x > 0 THEN 1 ELSE 0

RECURSIVE Gcd(_, _)
Gcd(a, b) == IF b = 0 THEN a ELSE Gcd(b, a % b)

NaN == [k |-> "nan", n |-> 0, d |-> 1]

Inf(s) == [k |-> "inf", n |-> s, d |-> 1]

\* The rational n/d, d # 0, in lowest terms.
Fin(n, d) ==
    LET g == Gcd(Abs(n), Abs(d))
    IN  [k |-> "fin", n |-> Sign(d) * (n \div g), d |-> Abs(d) \div g]

Num(n) == [k |-> "fin", n |-> n, d |-> 1]

IsNaN(x) == x.k = "nan"

NumNeg(x) == IF x.k = "nan" THEN NaN ELSE [x EXCEPT !.n = -x.n]

NumAdd(x, y) ==
    CASE x.k = "nan" \/ y.k = "nan" -> NaN
      [] x.k = "inf" /\ y.k = "inf" -> IF x.n = y.n THEN x ELSE NaN
      [] x.k = "inf" -> x
      [] y.k = "inf" -> y
      [] OTHER -> Fin(x.n * y.d + y.n * x.d, x.d * y.d)

NumSub(x, y) == NumAdd(x, NumNeg(y))

NumMul(x, y) ==
    CASE x.k = "nan" \/ y.k = "nan" -> NaN
      [] x.k = "inf" \/ y.k = "inf" ->
            IF x.n = 0 \/ y.n = 0 THEN NaN ELSE Inf(Sign(x.n) * Sign(y.n))
      [] OTHER -> Fin(x.n * y.n, x.d * y.d)

NumDiv(x, y) ==
    CASE x.k = "nan" \/ y.k = "nan" -> NaN
      [] x.k = "inf" /\ y.k = "inf" -> NaN
      [] x.k = "inf" -> Inf(IF y.n < 0 THEN -x.n ELSE x.n)
      [] y.k = "inf" -> Num(0)
      [] y.n = 0 -> IF x.n = 0 THEN NaN ELSE Inf(Sign(x.n))
      [] OTHER -> Fin(x.n * y.d, x.d * y.n)

\* x > 0 and x <= 0: both false of NaN.
Gt0(x) == x.k # "nan" /\ x.n > 0

Le0(x) == x.k # "nan" /\ x.n <= 0

\* array[i] with JavaScript's index, from 0.
At(array, i) == array[i + 1]

(***************************************************************************)
(* AnalysisEngine                                                          *)
(***************************************************************************)

\* !analyzer.id : undefined (missing) and the empty string are falsy.
FalsyId(analyzer) == ~Has(analyzer, "id") \/ analyzer.id = ""

\* !analyzer.process : a function object is truthy, a missing field is not.
FalsyProcess(analyzer) == ~Has(analyzer, "process")

\* !analyzer.tableColumns : an array is truthy, the empty array too.
FalsyTableColumns(analyzer) == ~Has(analyzer, "tableColumns")

\* A faulty guard, to test C2 against: the tableColumns test is left out.
RegisterRejectsNoColumnsCheck(analyzer) ==
    FalsyId(analyzer) \/ FalsyProcess(analyzer)

\* The guard of register's early return.
RegisterRejects(analyzer) ==
    FalsyId(analyzer) \/ FalsyProcess(analyzer) \/ FalsyTableColumns(analyzer)

\* register(analyzer): the registry after the call.
RegisterResult(list, analyzer) ==
    IF RegisterRejects(analyzer) THEN list ELSE Append(list, analyzer)

(***************************************************************************)
(* tool.process(flowData, samplingRate, currentSettings).  An analyzer's   *)
(* process is any function: the model keeps what a caller can observe of   *)
(* one call, a value returned or a value thrown.                           *)
(*   kind "return"       returns the object {val, n: flowData.length}      *)
(*   kind "throwError"   throw new Error("boom")                           *)
(*   kind "throwString"  throw "boom"      (a string has no .message)      *)
(*   kind "throwNull"    throw null                                        *)
(***************************************************************************)
CallProcess(tool, flow) ==
    IF tool.process.kind = "return"
    THEN [threw |-> FALSE, what |-> "value",
          value |-> [val |-> tool.process.val, n |-> Len(flow)]]
    ELSE [threw |-> TRUE,
          what |-> CASE tool.process.kind = "throwError" -> "Error"
                     [] tool.process.kind = "throwString" -> "string"
                     [] OTHER -> "null",
          value |-> [val |-> 0, n |-> 0]]

\* error.message inside the catch block: reading a property of null raises
\* a TypeError; a string has no message property (undefined).
MessageRaises(thrown) == thrown = "null"

MessageOf(thrown) == IF thrown = "Error" THEN "boom" ELSE "undefined"

\* results[tool.id] = { error: error.message }
ErrorEntry(thrown) == [tag |-> "error", message |-> MessageOf(thrown), val |-> 0, n |-> 0]

\* results[tool.id] = <the object process returned>
ValueEntry(value) == [tag |-> "value", message |-> "", val |-> value.val, n |-> value.n]

\* The assignment results[tool.id] = ... of both branches of the try.
StoreOutcome(results, tool, entry) == SetKey(results, tool.id, entry)

RECURSIVE RunTools(_, _, _, _, _)
\* The for-of loop of processSession from the k-th tool on.  A throw that
\* leaves the catch block leaves processSession: nothing is returned.
RunTools(tools, k, flow, results, invoked) ==
    IF k > Len(tools)
    THEN [outcome |-> "returned", results |-> results, invoked |-> invoked]
    ELSE LET tool == tools[k]
             r    == CallProcess(tool, flow)
             log  == Append(invoked, k)
         IN  IF ~r.threw
             THEN RunTools(tools, k + 1, flow,
                           StoreOutcome(results, tool, ValueEntry(r.value)), log)
             ELSE IF MessageRaises(r.what)
             THEN [outcome |-> "threw", results |-> results, invoked |-> log]
             ELSE RunTools(tools, k + 1, flow,
                           StoreOutcome(results, tool, ErrorEntry(r.what)), log)

\* processSession(flow, samplingRate)
ProcessSessionResult(tools, flow) ==
    RunTools(tools, 1, flow, EmptyObject, <<>>)

\* { ...col, toolId: tool.id }
TagColumn(col, tool) == [key |-> col.key, label |-> col.label, toolId |-> tool.id]

RECURSIVE ColumnsOf(_, _)
\* The inner loop of getAllTableColumns over one tool's tableColumns.
ColumnsOf(tool, j) ==
    IF j > Len(tool.tableColumns) THEN <<>>
    ELSE <<TagColumn(tool.tableColumns[j], tool)>> \o ColumnsOf(tool, j + 1)

RECURSIVE TableColumnsFromPrepending(_, _)
\* A faulty outer loop, to test C3 against: each tool's columns are put in
\* front of the list instead of at its end.
TableColumnsFromPrepending(tools, k) ==
    IF k > Len(tools) THEN <<>>
    ELSE TableColumnsFromPrepending(tools, k + 1) \o ColumnsOf(tools[k], 1)

RECURSIVE TableColumnsFrom(_, _)
\* The outer loop of getAllTableColumns from the k-th tool on.
TableColumnsFrom(tools, k) ==
    IF k > Len(tools) THEN <<>>
    ELSE ColumnsOf(tools[k], 1) \o TableColumnsFrom(tools, k + 1)

GetAllTableColumnsResult(tools) == TableColumnsFrom(tools, 1)

(***************************************************************************)
(* Inputs of the engine's calls.                                           *)
(***************************************************************************)
Col1 == [key |-> "wobbleFL", label |-> "FL Score (%)"]
Col2 == [key |-> "snoreScore", label |-> "Example Snore Score"]

IdChoices == {"", "wobble_core", "custom_snore_check"}

ProcessChoices ==
    {[kind |-> "return", val |-> 1], [kind |-> "return", val |-> 2],
     [kind |-> "throwError", val |-> 0], [kind |-> "throwString", val |-> 0],
     [kind |-> "throwNull", val |-> 0]}

TableColumnsChoices == {<<>>, <<Col2>>, <<Col1, Col2>>}

Named == [name |-> "tool"]

\* Every analyzer object: each of id, process, tableColumns present or not.
AnalyzerInputs ==
    {Named} \cup
    {Named @@ [id |-> i] : i \in IdChoices} \cup
    {Named @@ [process |-> p] : p \in ProcessChoices} \cup
    {Named @@ [tableColumns |-> c] : c \in TableColumnsChoices} \cup
    {Named @@ [id |-> i, process |-> p] : i \in IdChoices, p \in ProcessChoices} \cup
    {Named @@ [id |-> i, tableColumns |-> c] : i \in IdChoices, c \in TableColumnsChoices} \cup
    {Named @@ [process |-> p, tableColumns |-> c] :
        p \in ProcessChoices, c \in TableColumnsChoices} \cup
    {Named @@ [id |-> i, process |-> p, tableColumns |-> c] :
        i \in IdChoices, p \in ProcessChoices, c \in TableColumnsChoices}

FlowInputs == {<<>>, <<1, -1>>}

NoArg == Named

(***************************************************************************)
(* The engine's actions: one per method.                                   *)
(***************************************************************************)
EngineStart ==
    /\ analyzers = <<>>
    /\ lastCall = [op |-> "none", arg |-> NoArg, before |-> <<>>]
    /\ ret = [outcome |-> "none"]

register ==
    \E analyzer \in AnalyzerInputs :
        /\ Len(analyzers) < MaxAnalyzers
        /\ analyzers' = RegisterResult(analyzers, analyzer)
        /\ lastCall' = [op |-> "register", arg |-> analyzer, before |-> analyzers]
        /\ ret' = [outcome |-> "returned"]
        /\ UNCHANGED <<segVars, procVars, edfVars>>

processSession ==
    \E flow \in FlowInputs :
        /\ ret' = ProcessSessionResult(analyzers, flow) @@ [flowData |-> flow]
        /\ lastCall' = [op |-> "processSession", arg |-> NoArg, before |-> analyzers]
        /\ UNCHANGED analyzers
        /\ UNCHANGED <<segVars, procVars, edfVars>>

getAllTableColumns ==
    /\ ret' = [outcome |-> "returned", columns |-> GetAllTableColumnsResult(analyzers)]
    /\ lastCall' = [op |-> "getAllTableColumns", arg |-> NoArg, before |-> analyzers]
    /\ UNCHANGED analyzers
    /\ UNCHANGED <<segVars, procVars, edfVars>>

NextEngine == register \/ processSession \/ getAllTableColumns

(***************************************************************************)
(* Claims about AnalysisEngine, checked under SpecEngine.                  *)
(***************************************************************************)
RegisteredIds == {analyzers[k].id : k \in 1..Len(analyzers)}

DistinctIds == Cardinality(RegisteredIds) = Len(analyzers)

\* C1: processSession invokes every registered analyzer exactly once, in
\* registration order, and whatever value an analyzer's process throws the
\* call still returns a map holding an error-tagged entry for the faulting
\* analyzer and the unaltered return value of every other analyzer.  Stated
\* for registries whose ids are pairwise distinct, so that a violation is a
\* violation of the isolation guarantee and not of the keying by id.
C1_IsolationWhateverIsThrown ==
    (lastCall.op = "processSession" /\ DistinctIds) =>
        /\ ret.outcome = "returned"
        /\ ret.invoked = [k \in 1..Len(analyzers) |-> k]
        /\ \A k \in 1..Len(analyzers) :
              LET tool == analyzers[k] IN
              /\ Has(ret.results, tool.id)
              /\ tool.process.kind = "return" =>
                    /\ ret.results[tool.id].tag = "value"
                    /\ ret.results[tool.id].val = tool.process.val
                    /\ ret.results[tool.id].n = Len(ret.flowData)
              /\ tool.process.kind # "return" => ret.results[tool.id].tag = "error"

\* C2 (vocabulary): the analyzer lacks an id (none, or the empty string), a
\* process function or a tableColumns schema.
C2_Lacks(analyzer) ==
    \/ ~Has(analyzer, "id")
    \/ ~Has(analyzer, "process")
    \/ ~Has(analyzer, "tableColumns")
    \/ analyzer.id = ""

\* C2: register with an analyzer lacking an id, a process function or a
\* tableColumns schema returns normally and leaves the registry as it was;
\* with an analyzer that has all three it appends the analyzer at the end.
C2_RegisterRejectsOrAppends ==
    lastCall.op = "register" =>
        /\ ret.outcome = "returned"
        /\ C2_Lacks(lastCall.arg) => analyzers = lastCall.before
        /\ ~C2_Lacks(lastCall.arg) =>
              /\ Len(analyzers) = Len(lastCall.before) + 1
              /\ analyzers[Len(analyzers)] = lastCall.arg
              /\ SubSeq(analyzers, 1, Len(lastCall.before)) = lastCall.before

\* C2 witness: an analyzer with an id and a process function but no
\* tableColumns was rejected by a registry that already held a tool.
C2_Witness ==
    /\ lastCall.op = "register"
    /\ Has(lastCall.arg, "id") /\ Has(lastCall.arg, "process")
    /\ ~Has(lastCall.arg, "tableColumns")
    /\ Len(lastCall.before) = 1
    /\ analyzers = lastCall.before

RECURSIVE C3_ColumnsBefore(_)
\* C3 (vocabulary): how many columns the analyzers before the k-th declare.
C3_ColumnsBefore(k) ==
    IF k <= 1 THEN 0
    ELSE C3_ColumnsBefore(k - 1) + Len(analyzers[k - 1].tableColumns)

\* C3: getAllTableColumns returns the concatenation, in registration order,
\* of every registered analyzer's tableColumns in declared order, each column
\* carrying its analyzer's id as toolId, and leaves the registry unchanged.
C3_ColumnsInRegistrationOrder ==
    lastCall.op = "getAllTableColumns" =>
        /\ analyzers = lastCall.before
        /\ ret.outcome = "returned"
        /\ Len(ret.columns) = C3_ColumnsBefore(Len(analyzers) + 1)
        /\ \A k \in 1..Len(analyzers) :
              \A j \in 1..Len(analyzers[k].tableColumns) :
                 LET col == ret.columns[C3_ColumnsBefore(k) + j] IN
                 /\ col.key = analyzers[k].tableColumns[j].key
                 /\ col.label = analyzers[k].tableColumns[j].label
                 /\ col.toolId = analyzers[k].id

\* C3 witness: two analyzers with different ids and different schemas were
\* registered and their columns were asked for.
C3_Witness ==
    /\ lastCall.op = "getAllTableColumns"
    /\ Len(analyzers) = 2
    /\ analyzers[1].id # analyzers[2].id
    /\ Len(analyzers[1].tableColumns) = 2
    /\ Len(analyzers[2].tableColumns) = 1
    /\ Len(ret.columns) = 3

\* C16: after any sequence of register calls, the map processSession returns
\* has exactly one key per registered analyzer, also when two registered
\* analyzers carry the same id.  Stated for the calls that return a map, so
\* that a violation is a violation of the keying by id and not of the
\* isolation guarantee of C1.
C16_OneEntryPerAnalyzer ==
    (lastCall.op = "processSession" /\ ret.outcome = "returned") =>
        Cardinality(DOMAIN ret.results) = Len(analyzers)

(***************************************************************************)
(* WobbleAnalyzer.process: the breath segmentation scan.                   *)
(***************************************************************************)

\* A faulty rising test, to test C8 against: the previous sample is ignored.
IsRisingCrossingNoPrevCheck(flow, i) == Gt0(At(flow, i))

\* flowData[i] > 0 && flowData[i - 1] <= 0
IsRisingCrossing(flow, i) == Gt0(At(flow, i)) /\ Le0(At(flow, i - 1))

\* flowData[i] <= 0 && flowData[i - 1] > 0
IsFallingCrossing(flow, i) == Le0(At(flow, i)) /\ Gt0(At(flow, i - 1))

\* A faulty breath literal, to test C9 against: endTime is set at creation.
NewBreathWithEndTime(i, rate) ==
    [start |-> i, end |-> i, inspStart |-> i, inspEnd |-> i,
     startTime |-> NumDiv(Num(i), rate), endTime |-> NumDiv(Num(i), rate)]

\* The object literal assigned to currentBreath; inspirationStart is i here.
NewBreath(i, rate) ==
    [start |-> i, end |-> i, inspStart |-> i, inspEnd |-> i,
     startTime |-> NumDiv(Num(i), rate)]

\* A faulty closing, to test C10 against: inspEnd is not moved to i.
CloseBreathEndOnly(breath, i, rate) ==
    [x \in (DOMAIN breath) \cup {"endTime"} |->
        CASE x = "end" -> i
          [] x = "endTime" -> NumDiv(Num(i), rate)
          [] OTHER -> breath[x]]

\* currentBreath.inspEnd = i; currentBreath.end = i; currentBreath.endTime = ...
CloseBreath(breath, i, rate) ==
    [x \in (DOMAIN breath) \cup {"endTime"} |->
        CASE x = "inspEnd" -> i
          [] x = "end" -> i
          [] x = "endTime" -> NumDiv(Num(i), rate)
          [] OTHER -> breath[x]]

\* One iteration of for (let i = 1; i < flowData.length; i++).
ScanStep ==
    /\ segPc = "scan"
    /\ segI < Len(flowData)
    /\ IF IsRisingCrossing(flowData, segI)
       THEN /\ inspirationStart' = segI
            /\ inInspiration' = TRUE
            /\ breaths' = Append(breaths, NewBreath(segI, samplingRate))
            /\ currentBreath' = Len(breaths) + 1
       ELSE IF IsFallingCrossing(flowData, segI)
       THEN /\ breaths' =
                  IF inInspiration /\ currentBreath # 0
                  THEN [breaths EXCEPT ![currentBreath] =
                            CloseBreath(@, segI, samplingRate)]
                  ELSE breaths
            /\ inInspiration' = FALSE
            /\ UNCHANGED <<inspirationStart, currentBreath>>
       ELSE UNCHANGED <<breaths, inInspiration, inspirationStart, currentBreath>>
    /\ segI' = segI + 1
    /\ UNCHANGED <<flowData, samplingRate, segPc>>
    /\ UNCHANGED <<procVars, engineVars, edfVars>>

\* The loop's exit: i < flowData.length is false.
ScanExit ==
    /\ segPc = "scan"
    /\ ~(segI < Len(flowData))
    /\ segPc' = "scanned"
    /\ UNCHANGED <<flowData, samplingRate, segI, breaths, inInspiration,
                   inspirationStart, currentBreath>>
    /\ UNCHANGED <<procVars, engineVars, edfVars>>

(***************************************************************************)
(* Inputs of process.                                                      *)
(***************************************************************************)
FlowValues == {Num(-1), Num(0), Num(1), NaN}

FlowSeqs == UNION {[1..n -> FlowValues] : n \in 0..MaxFlowLen}

SamplingRates == {Num(1), Num(25)}

\* process was called: the state before the scan's first iteration.
SegStart ==
    /\ flowData \in FlowSeqs
    /\ samplingRate \in SamplingRates
    /\ segPc = "scan"
    /\ segI = 1
    /\ breaths = <<>>
    /\ inInspiration = FALSE
    /\ inspirationStart = 0
    /\ currentBreath = 0

SegIdle ==
    /\ flowData = <<>>
    /\ samplingRate = Num(1)
    /\ segPc = "idle"
    /\ segI = 0
    /\ breaths = <<>>
    /\ inInspiration = FALSE
    /\ inspirationStart = 0
    /\ currentBreath = 0

EngineIdle ==
    /\ analyzers = <<>>
    /\ lastCall = [op |-> "none", arg |-> NoArg, before |-> <<>>]
    /\ ret = [outcome |-> "none"]

NextSeg == ScanStep \/ ScanExit

(***************************************************************************)
(* Claims about the breath segmentation scan, checked under SpecSeg.       *)
(***************************************************************************)
Min(S) == CHOOSE x \in S : \A y \in S : x <= y

\* C8 (vocabulary): the rising and the falling zero-crossings of the flow.
C8_Rising == {i \in 1..(Len(flowData) - 1) :
                 Gt0(flowData[i + 1]) /\ Le0(flowData[i])}

C8_Falling == {j \in 1..(Len(flowData) - 1) :
                  Le0(flowData[j + 1]) /\ Gt0(flowData[j])}

\* C8 (vocabulary): the falling crossings at which the k-th breath is the
\* open one: after its start and before the next breath starts.
C8_ClosingOf(k) ==
    {j \in C8_Falling :
        /\ breaths[k].start < j
        /\ k < Len(breaths) => j < breaths[k + 1].start}

C8_Example == <<Num(-1), Num(1), Num(-1), Num(1), Num(-1)>>

\* C8: when the scan has finished there is one breath for exactly each index
\* i >= 1 with flow[i] > 0 and flow[i-1] <= 0, in increasing index order,
\* with start = i and startTime = i / samplingRate, and each breath was
\* closed at the first falling crossing that found it open; the flow
\* [-1,1,-1,1,-1] at 1 Hz yields exactly two breaths, starting at 1 and 3.
C8_OneBreathPerRisingCrossing ==
    segPc = "scanned" =>
        /\ Len(breaths) = Cardinality(C8_Rising)
        /\ {breaths[k].start : k \in 1..Len(breaths)} = C8_Rising
        /\ \A k \in 1..(Len(breaths) - 1) : breaths[k].start < breaths[k + 1].start
        /\ \A k \in 1..Len(breaths) :
              /\ NumMul(breaths[k].startTime, samplingRate) = Num(breaths[k].start)
              /\ IF C8_ClosingOf(k) # {}
                 THEN breaths[k].end = Min(C8_ClosingOf(k))
                 ELSE breaths[k].end = breaths[k].start
        /\ (flowData = C8_Example /\ samplingRate = Num(1)) =>
              /\ Len(breaths) = 2
              /\ breaths[1].start = 1 /\ breaths[1].startTime = Num(1)
              /\ breaths[2].start = 3 /\ breaths[2].startTime = Num(3)

\* C8 witness: the scan of [-1,1,-1,1,-1] at 1 Hz has finished with two
\* breaths, both closed.
C8_Witness ==
    /\ segPc = "scanned"
    /\ flowData = C8_Example
    /\ samplingRate = Num(1)
    /\ Len(breaths) = 2
    /\ breaths[1].end = 2
    /\ breaths[2].end = 4

\* C9 (vocabulary): no falling crossing occurs after the k-th breath's start.
C9_Trailing(k) == \A j \in C8_Falling : j <= breaths[k].start

IsSpace(c) == c \in {9, 10, 11, 12, 13, 32}

IsDigit(c) == c >= 48 /\ c <= 57

RECURSIVE TrimStart(_)
TrimStart(text) ==
    IF text # <<>> /\ IsSpace(Head(text)) THEN TrimStart(Tail(text)) ELSE text

RECURSIVE TrimEnd(_)
TrimEnd(text) ==
    IF text # <<>> /\ IsSpace(text[Len(text)])
    THEN TrimEnd(SubSeq(text, 1, Len(text) - 1)) ELSE text

\* String.prototype.trim
Trim(text) == TrimEnd(TrimStart(text))

\* new Uint8Array(buffer, offset, len) raises a RangeError past the end.
GetStrRaises(buf, offset, len) == offset + len > Len(buf)

\* getStr = (offset, len) => decoder.decode(new Uint8Array(buffer, offset, len)).trim()
GetStr(buf, offset, len) == Trim(SubSeq(buf, offset + 1, offset + len))

RECURSIVE DigitRun(_, _)
\* How many decimal digits text holds from position i on.
DigitRun(text, i) ==
    IF i <= Len(text) /\ IsDigit(text[i]) THEN 1 + DigitRun(text, i + 1) ELSE 0

RECURSIVE DigitsValue(_, _, _)
\* The value of the n digits of text that end at position i + n - 1.
DigitsValue(text, i, n) ==
    IF n = 0 THEN 0
    ELSE 10 * DigitsValue(text, i, n - 1) + (text[i + n - 1] - 48)

RECURSIVE Pow10(_)
Pow10(n) == IF n = 0 THEN 1 ELSE 10 * Pow10(n - 1)

HasSign(text) == text # <<>> /\ text[1] \in {43, 45}

SignOf(text) == IF text # <<>> /\ text[1] = 45 THEN -1 ELSE 1

\* parseInt(string): leading white space, an optional sign, then the longest
\* run of decimal digits; NaN when there is none.  (A 0x prefix is not
\* modelled.)
ParseInt(string) ==
    LET text  == TrimStart(string)
        first == IF HasSign(text) THEN 2 ELSE 1
        n     == DigitRun(text, first)
    IN  IF n = 0 THEN NaN ELSE Num(SignOf(text) * DigitsValue(text, first, n))

\* parseFloat(string): an optional sign, digits, an optional fraction; NaN
\* when there is no digit.  (Exponents and "Infinity" are not modelled.)
ParseFloat(string) ==
    LET text  == TrimStart(string)
        first == IF HasSign(text) THEN 2 ELSE 1
        n     == DigitRun(text, first)
        dot   == first + n
        m     == IF dot <= Len(text) /\ text[dot] = 46
                 THEN DigitRun(text, dot + 1) ELSE 0
    IN  IF n = 0 /\ m = 0 THEN NaN
        ELSE Fin(SignOf(text) * (DigitsValue(text, first, n) * Pow10(m)
                                 + DigitsValue(text, dot + 1, m)),
                 Pow10(m))

RECURSIVE SplitDots(_, _)
\* string.split('.') : the pieces, cur being the piece under way.
SplitDots(text, cur) ==
    IF text = <<>> THEN <<cur>>
    ELSE IF Head(text) = 46 THEN <<cur>> \o SplitDots(Tail(text), <<>>)
    ELSE SplitDots(Tail(text), Append(cur, Head(text)))

\* parseInt(parts[k]) with JavaScript's index; parts[k] missing is undefined,
\* and parseInt(undefined) is NaN.
ParsePart(parts, k) == IF k + 1 <= Len(parts) THEN ParseInt(parts[k + 1]) ELSE NaN

\* x || 0
OrZero(x) == IF IsNaN(x) \/ x = Num(0) THEN Num(0) ELSE x

\* year += (year < 85) ? 2000 : 1900, when year is a number
FullYear(year) ==
    IF IsNaN(year) THEN NaN
    ELSE IF year.n < 85 THEN NumAdd(year, Num(2000)) ELSE NumAdd(year, Num(1900))

\* The arguments of new Date(...), in order.
DateParts(startDate, startTime) ==
    LET dateParts == SplitDots(startDate, <<>>)
        timeParts == SplitDots(startTime, <<>>)
    IN  <<FullYear(ParsePart(dateParts, 2)),
          NumSub(ParsePart(dateParts, 1), Num(1)),
          ParsePart(dateParts, 0),
          OrZero(ParsePart(timeParts, 0)),
          OrZero(ParsePart(timeParts, 1)),
          OrZero(ParsePart(timeParts, 2))>>

\* toISOString raises a RangeError on an invalid Date: one built from NaN.
ToISOStringRaises(parts) == \E k \in 1..Len(parts) : IsNaN(parts[k])

\* The header object literal and the two fields added to it.  recordingDate
\* is kept as the Date's components.
ParseHeader(buf) ==
    LET startDate == GetStr(buf, 168, 8)
        startTime == GetStr(buf, 176, 8)
        numDataRecords == ParseInt(GetStr(buf, 236, 8))
        recordDurationSec == ParseFloat(GetStr(buf, 244, 8))
    IN  [version |-> GetStr(buf, 0, 8),
         patientId |-> GetStr(buf, 8, 80),
         recordingId |-> GetStr(buf, 88, 80),
         startDate |-> startDate,
         startTime |-> startTime,
         headerBytes |-> ParseInt(GetStr(buf, 184, 8)),
         reserved |-> GetStr(buf, 192, 44),
         numDataRecords |-> numDataRecords,
         recordDurationSec |-> recordDurationSec,
         numSignals |-> ParseInt(GetStr(buf, 252, 4)),
         recordingDate |-> DateParts(startDate, startTime),
         totalDurationMinutes |->
             NumDiv(NumMul(numDataRecords, recordDurationSec), Num(60))]

\* How often for (let i = 0; i < x; i++) runs: never when x is NaN.
LoopCount(x) == IF x.k = "fin" /\ x.n > 0 THEN x.n ELSE 0

\* The signal header's blocks in the order the loops read them, each with
\* the width of one entry.
SignalBlocks ==
    <<[field |-> "label", width |-> 16],
      [field |-> "transducer", width |-> 80],
      [field |-> "physicalDimension", width |-> 8],
      [field |-> "physicalMin", width |-> 8],
      [field |-> "physicalMax", width |-> 8],
      [field |-> "digitalMin", width |-> 8],
      [field |-> "digitalMax", width |-> 8],
      [field |-> "prefiltering", width |-> 80],
      [field |-> "numSamplesPerRecord", width |-> 8]>>

RECURSIVE BlockOffset(_, _)
\* The value of offset while the b-th block's loop runs: 256, then
\* offset += header.numSignals * width after each block.
BlockOffset(b, numSignals) ==
    IF b = 1 THEN 256
    ELSE BlockOffset(b - 1, numSignals) + numSignals * SignalBlocks[b - 1].width

RECURSIVE FieldsBefore(_)
\* The widths of the fields before the b-th, summed.
FieldsBefore(b) == IF b = 1 THEN 0 ELSE FieldsBefore(b - 1) + SignalBlocks[b - 1].width

\* A faulty offset, to test C7 against: the fields of one channel are taken
\* to lie side by side (a per-channel-contiguous layout).
ReadOffsetChannelContiguous(b, i, numSignals) ==
    256 + i * (FieldsBefore(Len(SignalBlocks)) + SignalBlocks[Len(SignalBlocks)].width)
        + FieldsBefore(b)

\* offset + i * width in the b-th block's loop.
ReadOffset(b, i, numSignals) ==
    BlockOffset(b, numSignals) + i * SignalBlocks[b].width

\* Every getStr of the signal headers: its field, channel, offset, length.
SignalReads(numSignals) ==
    {[field |-> SignalBlocks[b].field, channel |-> i,
      offset |-> ReadOffset(b, i, numSignals), len |-> SignalBlocks[b].width] :
        b \in 1..Len(SignalBlocks), i \in 0..(numSignals - 1)}

\* The first signal-header read that runs past the end raises.
SignalReadsRaise(buf, numSignals) ==
    \E r \in SignalReads(numSignals) : GetStrRaises(buf, r.offset, r.len)

\* The text the b-th block's loop reads for channel i.
SignalText(buf, b, i, numSignals) ==
    GetStr(buf, ReadOffset(b, i, numSignals), SignalBlocks[b].width)

\* signals[i] as the nine loops leave it.
ParseSignal(buf, i, numSignals, recordDurationSec) ==
    LET physicalMin == ParseFloat(SignalText(buf, 4, i, numSignals))
        physicalMax == ParseFloat(SignalText(buf, 5, i, numSignals))
        digitalMin  == ParseInt(SignalText(buf, 6, i, numSignals))
        digitalMax  == ParseInt(SignalText(buf, 7, i, numSignals))
        numSamplesPerRecord == ParseInt(SignalText(buf, 9, i, numSignals))
    IN  [label |-> SignalText(buf, 1, i, numSignals),
         transducer |-> SignalText(buf, 2, i, numSignals),
         physicalDimension |-> SignalText(buf, 3, i, numSignals),
         physicalMin |-> physicalMin,
         physicalMax |-> physicalMax,
         digitalMin |-> digitalMin,
         digitalMax |-> digitalMax,
         prefiltering |-> SignalText(buf, 8, i, numSignals),
         numSamplesPerRecord |-> numSamplesPerRecord,
         samplingRate |-> NumDiv(numSamplesPerRecord, recordDurationSec),
         scaleFactor |-> NumDiv(NumSub(physicalMax, physicalMin),
                                NumSub(digitalMax, digitalMin)),
         physicalValues |-> <<>>]

ParseSignals(buf, header) ==
    [k \in 1..LoopCount(header.numSignals) |->
        ParseSignal(buf, k - 1, LoopCount(header.numSignals),
                    header.recordDurationSec)]

\* DataView's ToIndex(byteOffset): NaN converts to 0.
ToIndex(offset) == IF IsNaN(offset) THEN 0 ELSE offset.n

\* getInt16 raises a RangeError on a negative index or past the end.
GetInt16Raises(buf, index) == index < 0 \/ index + 2 > Len(buf)

\* view.getInt16(offset, true): little-endian, two's complement.
GetInt16(buf, index) ==
    LET u == buf[index + 1] + 256 * buf[index + 2]
    IN  IF u >= 32768 THEN u - 65536 ELSE u

\* (digitalValue - signal.digitalMin) * signal.scaleFactor + signal.physicalMin
PhysVal(digitalValue, signal) ==
    NumAdd(NumMul(NumSub(Num(digitalValue), signal.digitalMin), signal.scaleFactor),
           signal.physicalMin)

\* A faulty data start, to test C6 against: the running offset after the
\* signal headers is kept instead of header.headerBytes.
DataStartAfterSignalHeaders(header) ==
    Num(256 + LoopCount(header.numSignals) * 256)

\* offset = header.headerBytes
DataStart(header) == header.headerBytes

RECURSIVE ReadRecords(_, _, _, _, _, _, _)
\* The three nested loops over the data records, from (record, sig, s) on,
\* offset being the running byte offset.
ReadRecords(buf, header, signals, record, sig, s, offset) ==
    IF record >= LoopCount(header.numDataRecords)
    THEN [raised |-> FALSE, signals |-> signals]
    ELSE IF sig >= LoopCount(header.numSignals)
    THEN ReadRecords(buf, header, signals, record + 1, 0, 0, offset)
    ELSE IF s >= LoopCount(signals[sig + 1].numSamplesPerRecord)
    THEN ReadRecords(buf, header, signals, record, sig + 1, 0, offset)
    ELSE IF GetInt16Raises(buf, ToIndex(offset))
    THEN [raised |-> TRUE, signals |-> signals]
    ELSE LET digitalValue == GetInt16(buf, ToIndex(offset))
             physVal == PhysVal(digitalValue, signals[sig + 1])
         IN  ReadRecords(buf, header,
                         [signals EXCEPT ![sig + 1].physicalValues = Append(@, physVal)],
                         record, sig, s + 1, NumAdd(offset, Num(2)))

RECURSIVE ToLowerCase(_)
ToLowerCase(text) ==
    IF text = <<>> THEN <<>>
    ELSE <<IF Head(text) >= 65 /\ Head(text) <= 90 THEN Head(text) + 32 ELSE Head(text)>>
         \o ToLowerCase(Tail(text))

\* String.prototype.includes
Includes(text, part) ==
    \E k \in 1..(Len(text) - Len(part) + 1) :
        SubSeq(text, k, k + Len(part) - 1) = part

TextFlow == <<102, 108, 111, 119>>  \* "flow"
TextFlw == <<102, 108, 119>>  \* "flw"

IsFlowLabel(label) ==
    Includes(ToLowerCase(label), TextFlow) \/ Includes(ToLowerCase(label), TextFlw)

\* signals.find(...) || null : the place of the first flow signal, 0 for null.
FindFlowSignal(signals) ==
    LET hits == {k \in 1..Len(signals) : IsFlowLabel(signals[k].label)}
    IN  IF hits = {} THEN 0 ELSE CHOOSE k \in hits : \A j \in hits : k <= j

Raised == [outcome |-> "raised"]

\* parse(buffer): the object it returns, or that it raised.
ParseResult(buf) ==
    IF GetStrRaises(buf, 0, 256) THEN Raised
    ELSE LET header == ParseHeader(buf) IN
    IF ToISOStringRaises(header.recordingDate) THEN Raised
    ELSE IF SignalReadsRaise(buf, LoopCount(header.numSignals)) THEN Raised
    ELSE LET data == ReadRecords(buf, header, ParseSignals(buf, header),
                                 0, 0, 0, DataStart(header)) IN
    IF data.raised THEN Raised
    ELSE [outcome |-> "returned",
          metadata |-> header,
          signals |-> data.signals,
          flowSignal |-> FindFlowSignal(data.signals),
          reads |-> SignalReads(LoopCount(header.numSignals))]

(***************************************************************************)
(* Containers to parse.  A container is described by its channels, its     *)
(* number of data records and one of a few variants, and is laid out in    *)
(* bytes as the format prescribes: a 256-byte header, then one block per   *)
(* channel field holding one entry per channel, then the data records.     *)
(***************************************************************************)
RECURSIVE NatText(_)
NatText(n) == IF n < 10 THEN <<48 + n>> ELSE NatText(n \div 10) \o <<48 + (n % 10)>>

\* The decimal text of an integer.
IntText(n) == IF n < 0 THEN <<45>> \o NatText(-n) ELSE NatText(n)

RECURSIVE Spaces(_)
Spaces(n) == IF n <= 0 THEN <<>> ELSE <<32>> \o Spaces(n - 1)

\* A fixed-width field: the text, left-justified, padded with spaces.
Field(text, width) == text \o Spaces(width - Len(text))

\* A 16-bit two's complement sample, little-endian.
Int16Bytes(v) == LET u == (v + 65536) % 65536 IN <<u % 256, u \div 256>>

TextFlowLabel == <<70, 108, 111, 119>>  \* "Flow"
TextPressLabel == <<80, 114, 101, 115, 115, 46, 50, 115>>  \* "Press.2s"
TextSnoreLabel == <<83, 110, 111, 114, 101>>  \* "Snore"
TextLeakLabel == <<70, 108, 119, 76, 101, 97, 107>>  \* "FlwLeak"
TextLs == <<76, 47, 115>>  \* "L/s"
TextCmH2O == <<99, 109, 72, 50, 79>>  \* "cmH2O"
TextNone == <<>>
TextTransA == <<112, 110, 101, 117, 109, 111, 116, 97, 99, 104>>  \* "pneumotach"
TextTransB == <<112, 114, 101, 115, 115, 117, 114, 101, 32, 115, 101, 110, 115, 111, 114>>  \* "pressure sensor"
TextPreA == <<76, 80, 58, 49, 48, 72, 122>>  \* "LP:10Hz"
TextPreB == <<72, 80, 58, 48, 46, 49, 72, 122>>  \* "HP:0.1Hz"
TextBad == <<97, 98, 99>>  \* "abc"
TextDate == <<48, 50, 46, 49, 49, 46, 50, 54>>  \* "02.11.26"
TextTime == <<50, 48, 46, 48, 53, 46, 51, 48>>  \* "20.05.30"
TextMinus2p5 == <<45, 50, 46, 53>>  \* "-2.5"
TextPlus2p5 == <<50, 46, 53>>  \* "2.5"
TextZero == <<48>>  \* "0"
TextFive == <<53>>  \* "5"
TextOne == <<49>>  \* "1"
TextHalf == <<48, 46, 53>>  \* "0.5"

\* The channels a container may hold.  The last two have a zero digital
\* range.
ChannelFlow ==
    [label |-> TextFlowLabel, transducer |-> TextTransA, physicalDimension |-> TextLs,
     physicalMinText |-> TextMinus2p5, physicalMin |-> Fin(-5, 2),
     physicalMaxText |-> TextPlus2p5, physicalMax |-> Fin(5, 2),
     digitalMin |-> -1000, digitalMax |-> 1000,
     prefiltering |-> TextPreA, numSamplesPerRecord |-> 2]

ChannelPress ==
    [label |-> TextPressLabel, transducer |-> TextTransB, physicalDimension |-> TextCmH2O,
     physicalMinText |-> TextZero, physicalMin |-> Num(0),
     physicalMaxText |-> TextFive, physicalMax |-> Num(5),
     digitalMin |-> 0, digitalMax |-> 10,
     prefiltering |-> TextPreB, numSamplesPerRecord |-> 1]

ChannelFlatInf ==
    [label |-> TextSnoreLabel, transducer |-> TextNone, physicalDimension |-> TextNone,
     physicalMinText |-> TextZero, physicalMin |-> Num(0),
     physicalMaxText |-> TextOne, physicalMax |-> Num(1),
     digitalMin |-> 5, digitalMax |-> 5,
     prefiltering |-> TextNone, numSamplesPerRecord |-> 1]

ChannelFlatNaN ==
    [label |-> TextLeakLabel, transducer |-> TextNone, physicalDimension |-> TextLs,
     physicalMinText |-> TextZero, physicalMin |-> Num(0),
     physicalMaxText |-> TextZero, physicalMax |-> Num(0),
     digitalMin |-> 0, digitalMax |-> 0,
     prefiltering |-> TextNone, numSamplesPerRecord |-> 2]

Channels == {ChannelFlow, ChannelPress, ChannelFlatInf, ChannelFlatNaN}

Variants == {"plain", "padded", "badHeaderBytes", "badNumDataRecords",
             "badRecordDurationSec", "badNumSignals", "badStartDate", "truncated"}

Containers ==
    {[channels |-> ch, numDataRecords |-> r, variant |-> v] :
        ch \in UNION {[1..n -> Channels] : n \in 0..MaxSignals},
        r \in 0..MaxRecords,
        v \in Variants}

\* The digital sample s of channel sig (both from 0) in data record r: every
\* place holds a value of its own, negative ones and ones above 255 among
\* them.
Sample(r, sig, s) == -300 + 250 * r + 20 * sig + 7 * s

PadBytes(c) == IF c.variant = "padded" THEN 4 ELSE 0

HeaderBytesOf(c) == 256 + 256 * Len(c.channels) + PadBytes(c)

GlobalHeaderBytes(c) ==
    Field(TextZero, 8) \o Field(TextNone, 80) \o Field(TextNone, 80)
    \o Field(IF c.variant = "badStartDate" THEN TextNone ELSE TextDate, 8)
    \o Field(TextTime, 8)
    \o Field(IF c.variant = "badHeaderBytes" THEN TextBad
             ELSE IntText(HeaderBytesOf(c)), 8)
    \o Field(TextNone, 44)
    \o Field(IF c.variant = "badNumDataRecords" THEN TextBad
             ELSE IntText(c.numDataRecords), 8)
    \o Field(IF c.variant = "badRecordDurationSec" THEN TextBad ELSE TextHalf, 8)
    \o Field(IF c.variant = "badNumSignals" THEN TextBad
             ELSE IntText(Len(c.channels)), 4)

\* The text of one channel's entry in the block of a field.
EntryText(ch, field) ==
    CASE field = "label" -> ch.label
      [] field = "transducer" -> ch.transducer
      [] field = "physicalDimension" -> ch.physicalDimension
      [] field = "physicalMin" -> ch.physicalMinText
      [] field = "physicalMax" -> ch.physicalMaxText
      [] field = "digitalMin" -> IntText(ch.digitalMin)
      [] field = "digitalMax" -> IntText(ch.digitalMax)
      [] field = "prefiltering" -> ch.prefiltering
      [] field = "numSamplesPerRecord" -> IntText(ch.numSamplesPerRecord)
      [] OTHER -> TextNone

RECURSIVE BlockBytes(_, _, _, _)
\* One block: the entry of every channel from the k-th on, in channel order.
BlockBytes(c, k, field, width) ==
    IF k > Len(c.channels) THEN <<>>
    ELSE Field(EntryText(c.channels[k], field), width)
         \o BlockBytes(c, k + 1, field, width)

\* The ten blocks, in the format's order.
SignalHeaderBytes(c) ==
    BlockBytes(c, 1, "label", 16) \o BlockBytes(c, 1, "transducer", 80)
    \o BlockBytes(c, 1, "physicalDimension", 8) \o BlockBytes(c, 1, "physicalMin", 8)
    \o BlockBytes(c, 1, "physicalMax", 8) \o BlockBytes(c, 1, "digitalMin", 8)
    \o BlockBytes(c, 1, "digitalMax", 8) \o BlockBytes(c, 1, "prefiltering", 80)
    \o BlockBytes(c, 1, "numSamplesPerRecord", 8) \o BlockBytes(c, 1, "reserved", 32)

RECURSIVE DataBytes(_, _, _, _)
\* The data records from (r, sig, s) on: record by record, channel by
\* channel within a record, sample by sample within a channel.
DataBytes(c, r, sig, s) ==
    IF r >= c.numDataRecords THEN <<>>
    ELSE IF sig >= Len(c.channels) THEN DataBytes(c, r + 1, 0, 0)
    ELSE IF s >= c.channels[sig + 1].numSamplesPerRecord THEN DataBytes(c, r, sig + 1, 0)
    ELSE Int16Bytes(Sample(r, sig, s)) \o DataBytes(c, r, sig, s + 1)

\* The container's bytes.
Encode(c) ==
    LET whole == GlobalHeaderBytes(c) \o SignalHeaderBytes(c)
                 \o Spaces(PadBytes(c)) \o DataBytes(c, 0, 0, 0)
    IN  IF c.variant = "truncated" THEN SubSeq(whole, 1, Len(whole) - 2) ELSE whole

\* The buffer was handed to parse.
EdfStart ==
    /\ container \in Containers
    /\ buffer = Encode(container)
    /\ edfPc = "loaded"
    /\ parsed = [outcome |-> "none"]

EdfIdle ==
    /\ container = [channels |-> <<>>, numDataRecords |-> 0, variant |-> "plain"]
    /\ buffer = <<>>
    /\ edfPc = "idle"
    /\ parsed = [outcome |-> "none"]

\* EDFParser.parse(buffer)
parse ==
    /\ edfPc = "loaded"
    /\ parsed' = ParseResult(buffer)
    /\ edfPc' = "parsed"
    /\ UNCHANGED <<container, buffer>>
    /\ UNCHANGED <<engineVars, segVars, procVars>>

NextEDF == parse

(***************************************************************************)
(* Claims about EDFParser.parse, checked under SpecEDF.                    *)
(***************************************************************************)
\* C4 (vocabulary): some channel's digitalMax equals its digitalMin.
C4_ZeroDigitalRange(c) ==
    \E k \in 1..Len(c.channels) :
        c.channels[k].digitalMax = c.channels[k].digitalMin

\* C4: parse of a container in which a channel has digitalMax equal to
\* digitalMin fails with an error and returns no recording.  Stated for
\* containers that are well-formed in every other respect.
C4_ZeroDigitalRangeRejected ==
    (/\ edfPc = "parsed"
     /\ container.variant \in {"plain", "padded"}
     /\ C4_ZeroDigitalRange(container))
        => parsed.outcome = "raised"

\* C5 (vocabulary): one of headerBytes, numDataRecords, recordDurationSec,
\* numSignals holds text that is no number.
C5_BadNumericHeader(c) ==
    c.variant \in {"badHeaderBytes", "badNumDataRecords",
                   "badRecordDurationSec", "badNumSignals"}

\* C5: parse of a container whose headerBytes, numDataRecords,
\* recordDurationSec or numSignals field is not parseable as a number aborts
\* with an error and returns no recording, not even a partial one.
C5_BadNumericHeaderRejected ==
    (edfPc = "parsed" /\ C5_BadNumericHeader(container))
        => parsed.outcome = "raised"

\* C6 (vocabulary): a well-formed container.
C6_WellFormed(c) ==
    c.variant \in {"plain", "padded"} /\ ~C4_ZeroDigitalRange(c)

\* C6 (vocabulary): the n-th (from 1) digital sample of channel k (from 1) in
\* record order, and the physical value the conversion formula gives it.
C6_DigitalSample(c, k, n) ==
    LET spr == c.channels[k].numSamplesPerRecord
    IN  Sample((n - 1) \div spr, k - 1, (n - 1) % spr)

C6_ScaleFactor(ch) ==
    NumDiv(NumSub(ch.physicalMax, ch.physicalMin),
           Num(ch.digitalMax - ch.digitalMin))

C6_Physical(ch, d) ==
    NumAdd(NumMul(Num(d - ch.digitalMin), C6_ScaleFactor(ch)), ch.physicalMin)

\* C6: for a well-formed container whose sample data starts at byte offset
\* headerBytes, laid out as numDataRecords records holding the channels in
\* declared order with samplesPerRecord consecutive 16-bit samples each,
\* parse returns for every channel a waveform of exactly
\* samplesPerRecord x numDataRecords values, the n-th being
\* (d - digitalMin) x scaleFactor + physicalMin for the channel's n-th
\* digital sample d in record order.
C6_WaveformsDecoded ==
    (edfPc = "parsed" /\ C6_WellFormed(container)) =>
        /\ parsed.outcome = "returned"
        /\ Len(parsed.signals) = Len(container.channels)
        /\ \A k \in 1..Len(container.channels) :
              LET ch == container.channels[k]
                  wave == parsed.signals[k].physicalValues
              IN  /\ Len(wave) = ch.numSamplesPerRecord * container.numDataRecords
                  /\ parsed.signals[k].scaleFactor = C6_ScaleFactor(ch)
                  /\ \A n \in 1..Len(wave) :
                        wave[n] = C6_Physical(ch, C6_DigitalSample(container, k, n))

\* C6 witness: a container with padding between the signal headers and the
\* data, two channels of different sample counts and two data records was
\* parsed to waveforms of four and two values.
C6_Witness ==
    /\ edfPc = "parsed"
    /\ container.variant = "padded"
    /\ container.channels = <<ChannelFlow, ChannelPress>>
    /\ container.numDataRecords = 2
    /\ parsed.outcome = "returned"
    /\ Len(parsed.signals[1].physicalValues) = 4
    /\ Len(parsed.signals[2].physicalValues) = 2
    /\ parsed.signals[1].physicalValues[3] = Fin(-1, 8)

\* C7 (vocabulary): the fields of the claim, in its order, and their widths.
C7_Fields == <<"label", "transducer", "physicalDimension", "physicalMin",
               "physicalMax", "digitalMin", "digitalMax", "prefiltering",
               "numSamplesPerRecord">>

C7_Widths == <<16, 80, 8, 8, 8, 8, 8, 80, 8>>

RECURSIVE C7_WidthsBefore(_)
C7_WidthsBefore(f) == IF f = 1 THEN 0 ELSE C7_WidthsBefore(f - 1) + C7_Widths[f - 1]

C7_Overlap(r1, r2) ==
    r1.offset < r2.offset + r2.len /\ r2.offset < r1.offset + r1.len

\* C7: for numSignals = n, parse reads field f of channel i at offset
\* 256 + n x (widths of the fields before f) + i x width(f) with f's width;
\* no two reads overlap, every channel has one read of every field, and each
\* channel of the container is returned with its own entry of every block.
C7_ColumnMajorReads ==
    (edfPc = "parsed" /\ parsed.outcome = "returned") =>
        LET n == LoopCount(parsed.metadata.numSignals) IN
        /\ parsed.reads =
              {[field |-> C7_Fields[f], channel |-> i,
                offset |-> 256 + n * C7_WidthsBefore(f) + i * C7_Widths[f],
                len |-> C7_Widths[f]] : f \in 1..9, i \in 0..(n - 1)}
        /\ \A r1, r2 \in parsed.reads : r1 # r2 => ~C7_Overlap(r1, r2)
        /\ \A i \in 0..(n - 1) : \A f \in 1..9 :
              Cardinality({r \in parsed.reads :
                              r.channel = i /\ r.field = C7_Fields[f]}) = 1
        /\ container.variant # "badNumSignals" =>
              /\ n = Len(container.channels)
              /\ \A k \in 1..n :
                    LET ch == container.channels[k]
                        sig == parsed.signals[k]
                    IN  /\ sig.label = ch.label
                        /\ sig.transducer = ch.transducer
                        /\ sig.physicalDimension = ch.physicalDimension
                        /\ sig.physicalMin = ch.physicalMin
                        /\ sig.physicalMax = ch.physicalMax
                        /\ sig.digitalMin = Num(ch.digitalMin)
                        /\ sig.digitalMax = Num(ch.digitalMax)
                        /\ sig.prefiltering = ch.prefiltering
                        /\ sig.numSamplesPerRecord = Num(ch.numSamplesPerRecord)

\* C7 witness: a container of two different channels was parsed, and the
\* second channel's label was read at 256 + 16, its samplesPerRecord at
\* 256 + 2 x 216 + 8.
C7_Witness ==
    /\ edfPc = "parsed"
    /\ parsed.outcome = "returned"
    /\ container.channels = <<ChannelPress, ChannelFlow>>
    /\ parsed.signals[2].label = TextFlowLabel
    /\ [field |-> "label", channel |-> 1, offset |-> 272, len |-> 16] \in parsed.reads
    /\ [field |-> "numSamplesPerRecord", channel |-> 1, offset |-> 696, len |-> 8]
           \in parsed.reads

(***************************************************************************)
(* WobbleAnalyzer.process after the scan: flow limitation, arousal         *)
(* estimation, the minute-ventilation windows, regularity and periodicity. *)
(***************************************************************************)

(***************************************************************************)
(* Rounding.  A double holds n/d exactly when d is a power of two.  The    *)
(* operations below give the exact result, of kind "fin", when both        *)
(* operands are held exactly and the result is too; otherwise the result   *)
(* is of kind "apx": a finite double near n/d, so that an "apx" of value 0 *)
(* may or may not be 0.  Cosines, sines, square roots and logarithms that  *)
(* are irrational are not computed: Unk stands for a value the model does  *)
(* not know.  A product with an exact 0 is the exact 0.                    *)
(***************************************************************************)
Unk == [k |-> "unk", n |-> 0, d |-> 1]

\* The value of a variable that was declared and not assigned since.
Undefined == [k |-> "undefined", n |-> 0, d |-> 1]

RECURSIVE IsPowerOfTwo(_)
IsPowerOfTwo(n) == IF n <= 1 THEN n = 1 ELSE n % 2 = 0 /\ IsPowerOfTwo(n \div 2)

IsFinite(x) == x.k \in {"fin", "apx"}

IsExact(x) == x.k = "fin" /\ IsPowerOfTwo(x.d)

IsZero(x) == x.k = "fin" /\ x.n = 0

\* The result of an operation whose exact value is v.
Rounded(v, exactOperands) ==
    IF v.k = "fin" /\ ~(exactOperands /\ IsPowerOfTwo(v.d)) THEN [v EXCEPT !.k = "apx"]
    ELSE v

ValueOf(x) == [x EXCEPT !.k = "fin"]

\* x + y
FAdd(x, y) ==
    CASE x.k = "unk" \/ y.k = "unk" -> IF IsNaN(x) \/ IsNaN(y) THEN NaN ELSE Unk
      [] IsFinite(x) /\ IsFinite(y) ->
            IF IsZero(x) THEN y
            ELSE IF IsZero(y) THEN x
            ELSE Rounded(NumAdd(ValueOf(x), ValueOf(y)), IsExact(x) /\ IsExact(y))
      [] OTHER -> NumAdd(x, y)

\* x - y
FSub(x, y) == FAdd(x, NumNeg(y))

\* x * y
FMul(x, y) ==
    CASE x.k = "unk" \/ y.k = "unk" ->
            IF IsNaN(x) \/ IsNaN(y) THEN NaN
            ELSE IF IsZero(x) \/ IsZero(y) THEN Num(0) ELSE Unk
      [] IsFinite(x) /\ IsFinite(y) ->
            IF IsZero(x) \/ IsZero(y) THEN Num(0)
            ELSE Rounded(NumMul(ValueOf(x), ValueOf(y)), IsExact(x) /\ IsExact(y))
      [] OTHER -> NumMul(x, y)

\* x / y : a divisor or a dividend that may or may not be 0 leaves the
\* quotient unknown where it decides between a number, Infinity and NaN.
FDiv(x, y) ==
    CASE x.k = "unk" \/ y.k = "unk" -> IF IsNaN(x) \/ IsNaN(y) THEN NaN ELSE Unk
      [] IsFinite(x) /\ IsFinite(y) ->
            IF y.k = "apx" /\ y.n = 0 THEN Unk
            ELSE IF y.n = 0 THEN (IF x.k = "apx" /\ x.n = 0 THEN Unk
                                  ELSE NumDiv(ValueOf(x), y))
            ELSE IF IsZero(x) THEN Num(0)
            ELSE Rounded(NumDiv(ValueOf(x), ValueOf(y)), IsExact(x) /\ IsExact(y))
      [] OTHER -> NumDiv(x, y)

\* x < y, false when either is NaN.
NumLt(x, y) ==
    /\ x.k # "nan" /\ y.k # "nan"
    /\ CASE x.k = "inf" /\ y.k = "inf" -> x.n < y.n
         [] x.k = "inf" -> x.n < 0
         [] y.k = "inf" -> y.n > 0
         [] OTHER -> x.n * y.d < y.n * x.d

\* Math.max(x, y) and Math.min(x, y): NaN when either is NaN; values of
\* kind "apx" are compared by n/d.
MathMax(x, y) ==
    CASE IsNaN(x) \/ IsNaN(y) -> NaN
      [] x.k = "unk" \/ y.k = "unk" -> Unk
      [] OTHER -> IF NumLt(x, y) THEN y ELSE x

MathMin(x, y) ==
    CASE IsNaN(x) \/ IsNaN(y) -> NaN
      [] x.k = "unk" \/ y.k = "unk" -> Unk
      [] OTHER -> IF NumLt(y, x) THEN y ELSE x

\* Math.floor of a finite number.
Floor(x) == x.n \div x.d

\* Math.abs
NumAbs(x) == IF x.k = "nan" THEN NaN ELSE [x EXCEPT !.n = Abs(x.n)]

\* array.slice(a, b) with 0 <= a and 0 <= b.
Slice(array, a, b) == SubSeq(array, a + 1, IF b < Len(array) THEN b ELSE Len(array))

RECURSIVE SumFrom(_, _)
\* array.reduce((a, b) => a + b, 0) from the k-th element on.
SumFrom(array, k) ==
    IF k > Len(array) THEN Num(0) ELSE FAdd(array[k], SumFrom(array, k + 1))

\* The mean the code takes of a non-empty array: its sum over its length.
MeanOf(array) == FDiv(SumFrom(array, 1), Num(Len(array)))

RECURSIVE MaxFrom(_, _)
\* Math.max(...array) from the k-th element on; -Infinity of no element.
MaxFrom(array, k) ==
    IF k > Len(array) THEN Inf(-1) ELSE MathMax(array[k], MaxFrom(array, k + 1))

\* settings[key] || fallback : a missing key, 0 and NaN are falsy.
SettingOr(st, key, fallback) ==
    IF Has(st, key) /\ st[key].k # "nan" /\ st[key].n # 0 THEN st[key] ELSE fallback

\* flowData.slice(breath.inspStart, breath.inspEnd)
InspFlow(flow, breath) == Slice(flow, breath.inspStart, breath.inspEnd)

\* inspFlow.map(f => f / maxFlow)
NormalizedFlow(inspFlow) ==
    [j \in 1..Len(inspFlow) |-> FDiv(inspFlow[j], MaxFrom(inspFlow, 1))]

\* array.findIndex(f => f > topPercent): an index from 0, or -1.
FindIndexAbove(array, topPercent) ==
    LET above == {j \in 1..Len(array) : NumLt(topPercent, array[j])}
    IN  IF above = {} THEN -1 ELSE Min(above) - 1

\* [...array].reverse()
Reverse(array) == [j \in 1..Len(array) |-> array[Len(array) + 1 - j]]

TopHalfStart(normalizedFlow, topPercent) == FindIndexAbove(normalizedFlow, topPercent)

TopHalfEnd(normalizedFlow, topPercent) ==
    Len(normalizedFlow) - FindIndexAbove(Reverse(normalizedFlow), topPercent)

\* The guard of the scoring block.
HasTopHalf(normalizedFlow, topPercent) ==
    /\ TopHalfStart(normalizedFlow, topPercent) >= 0
    /\ TopHalfEnd(normalizedFlow, topPercent) > TopHalfStart(normalizedFlow, topPercent)

\* The body of the scoring block: the flatness of the top slice.
Flatness(normalizedFlow, topPercent, targetVar) ==
    LET topHalf == Slice(normalizedFlow, TopHalfStart(normalizedFlow, topPercent),
                         TopHalfEnd(normalizedFlow, topPercent))
        topHalfMean == MeanOf(topHalf)
        squares == [j \in 1..Len(topHalf) |->
                       FMul(FSub(topHalf[j], topHalfMean),
                              FSub(topHalf[j], topHalfMean))]
        topHalfVariance == MeanOf(squares)
    IN  MathMax(Num(0),
                MathMin(Num(100),
                        FMul(FDiv(FSub(targetVar, topHalfVariance), targetVar),
                               Num(100))))

RECURSIVE FlScoresFrom(_, _, _, _)
\* for (const breath of breaths) from the k-th breath on.  Each score keeps
\* the place of its breath in breaths, which the code does not store.
FlScoresFrom(flow, bs, k, st) ==
    IF k > Len(bs) THEN <<>>
    ELSE LET inspFlow == InspFlow(flow, bs[k])
             topPercent == SettingOr(st, "flTopPercentage", Fin(1, 2))
             targetVar == SettingOr(st, "flFlatnessTarget", Fin(1, 20))
             rest == FlScoresFrom(flow, bs, k + 1, st)
         IN  IF Len(inspFlow) < 10 THEN rest
             ELSE IF NumLt(MaxFrom(inspFlow, 1), Fin(1, 10)) THEN rest
             ELSE IF HasTopHalf(NormalizedFlow(inspFlow), topPercent)
             THEN <<[breath |-> k,
                     flatness |-> Flatness(NormalizedFlow(inspFlow), topPercent, targetVar)]>>
                  \o rest
             ELSE rest

\* let flScore = flScores.length > 0 ? mean : 0
FlScore(scores) ==
    IF Len(scores) > 0
    THEN MeanOf([j \in 1..Len(scores) |-> scores[j].flatness])
    ELSE Num(0)

\* The flow-limitation step of process.
FlowLimitation ==
    /\ segPc = "scanned"
    /\ segPc' = "flDone"
    /\ flScores' = FlScoresFrom(flowData, breaths, 1, settings)
    /\ UNCHANGED <<flowData, samplingRate, segI, breaths, inInspiration,
                   inspirationStart, currentBreath>>
    /\ UNCHANGED <<settings, qualifying, arousalList, mvI, minuteVent,
                   fftCalls, totalPower, periodicityIndex, result>>
    /\ UNCHANGED <<engineVars, edfVars>>

\* (flowData.length / samplingRate) / 3600
TotalDurationHours(flow, rate) == FDiv(FDiv(Num(Len(flow)), rate), Num(3600))

\* inspFlow.reduce((sum, f) => sum + Math.abs(f), 0) / samplingRate
TidalVolume(flow, breath, rate) ==
    LET inspFlow == InspFlow(flow, breath)
    IN  FDiv(SumFrom([j \in 1..Len(inspFlow) |-> NumAbs(inspFlow[j])], 1), rate)

RECURSIVE BreathMetricsFrom(_, _, _, _)
\* for (let i = 1; i < breaths.length; i++) from i on, i counted from 0.
BreathMetricsFrom(flow, bs, i, rate) ==
    IF ~(i < Len(bs)) THEN <<>>
    ELSE LET breath == At(bs, i)
             prevBreath == At(bs, i - 1)
             breathDuration == FSub(breath.startTime, prevBreath.startTime)
             rest == BreathMetricsFrom(flow, bs, i + 1, rate)
         IN  IF Le0(breathDuration) \/ NumLt(Num(20), breathDuration) THEN rest
             ELSE <<[time |-> breath.startTime,
                     rate |-> FDiv(Num(60), breathDuration),
                     volume |-> TidalVolume(flow, breath, rate),
                     breathIndex |-> i]>> \o rest

\* Math.max(0, i - Math.floor(baselineWindow / (60 / currentMetric.rate)));
\* slice takes a NaN start as 0.
BaselineStart(i, currentMetric, baselineWindow) ==
    LET breathsBack == FDiv(baselineWindow, FDiv(Num(60), currentMetric.rate))
    IN  IF ~IsFinite(breathsBack) THEN 0
        ELSE IF i - Floor(breathsBack) > 0 THEN i - Floor(breathsBack) ELSE 0

\* rateIncrease > minRateInc || volumeIncrease > minVolInc
AboveBaseline(currentMetric, baselineMetrics, st) ==
    LET baselineRate ==
            MeanOf([j \in 1..Len(baselineMetrics) |-> baselineMetrics[j].rate])
        baselineVolume ==
            MeanOf([j \in 1..Len(baselineMetrics) |-> baselineMetrics[j].volume])
        rateIncrease ==
            FDiv(FSub(currentMetric.rate, baselineRate), baselineRate)
        volumeIncrease ==
            FDiv(FSub(currentMetric.volume, baselineVolume), baselineVolume)
    IN  \/ NumLt(SettingOr(st, "arousalRateIncreaseMin", Fin(1, 5)), rateIncrease)
        \/ NumLt(SettingOr(st, "arousalVolIncreaseMin", Fin(3, 10)), volumeIncrease)

\* A faulty debounce, to test C11 against: a window of 10 seconds.
RecentArousalWithin10(list, currentMetric) ==
    /\ Len(list) > 0
    /\ NumLt(FSub(currentMetric.time, list[Len(list)].time), Num(10))

\* arousalList.length > 0 &&
\*     (currentMetric.time - arousalList[arousalList.length - 1].time) < 15
RecentArousal(list, currentMetric) ==
    /\ Len(list) > 0
    /\ NumLt(FSub(currentMetric.time, list[Len(list)].time), Num(15))

RECURSIVE ArousalsFrom(_, _, _, _, _)
\* for (let i = 0; i < breathMetrics.length; i++) from i on, i counted from
\* 0.  passed keeps the times of the metrics that passed the threshold test,
\* which the code does not store.
ArousalsFrom(metrics, i, st, passed, list) ==
    IF ~(i < Len(metrics)) THEN [qualifying |-> passed, arousalList |-> list]
    ELSE LET currentMetric == At(metrics, i)
             baselineWindow == SettingOr(st, "arousalBaselineWindowSec", Num(120))
             baselineMetrics ==
                 Slice(metrics, BaselineStart(i, currentMetric, baselineWindow), i)
         IN  IF Len(baselineMetrics) < 5
             THEN ArousalsFrom(metrics, i + 1, st, passed, list)
             ELSE IF ~AboveBaseline(currentMetric, baselineMetrics, st)
             THEN ArousalsFrom(metrics, i + 1, st, passed, list)
             ELSE ArousalsFrom(metrics, i + 1, st,
                               Append(passed, currentMetric.time),
                               IF RecentArousal(list, currentMetric) THEN list
                               ELSE Append(list, [time |-> currentMetric.time]))

\* The arousal block: skipped with fewer than 10 breaths or no duration.
ArousalsOf(flow, bs, rate, st) ==
    IF Len(bs) >= 10 /\ Gt0(TotalDurationHours(flow, rate))
    THEN ArousalsFrom(BreathMetricsFrom(flow, bs, 1, rate), 0, st, <<>>, <<>>)
    ELSE [qualifying |-> <<>>, arousalList |-> <<>>]

\* let arousals = 0; ... arousals = arousalList.length / totalDurationHours
ArousalRate(flow, bs, rate, list) ==
    IF Len(bs) >= 10 /\ Gt0(TotalDurationHours(flow, rate))
    THEN FDiv(Num(Len(list)), TotalDurationHours(flow, rate))
    ELSE Num(0)

\* The arousal estimation step of process.
ArousalEstimation ==
    /\ segPc = "flDone"
    /\ segPc' = "windows"
    /\ qualifying' = ArousalsOf(flowData, breaths, samplingRate, settings).qualifying
    /\ arousalList' = ArousalsOf(flowData, breaths, samplingRate, settings).arousalList
    /\ mvI' = 0
    /\ minuteVent' = <<>>
    /\ UNCHANGED <<flowData, samplingRate, segI, breaths, inInspiration,
                   inspirationStart, currentBreath>>
    /\ UNCHANGED <<settings, flScores, fftCalls, totalPower, periodicityIndex, result>>
    /\ UNCHANGED <<engineVars, edfVars>>

\* Math.floor(60 * samplingRate) and Math.floor(5 * samplingRate)
WindowSize(rate) == Floor(FMul(Num(60), rate))

StepSize(rate) == Floor(FMul(Num(5), rate))

RECURSIVE WindowVentFrom(_, _, _, _, _, _)
\* for (let j = 1; j < window.length; j++) from j on, then the value pushed:
\* (tidalVolume * breathCount) / 60.
WindowVentFrom(window, j, rate, tidalVolume, breathCount, inInh) ==
    IF ~(j < Len(window))
    THEN FDiv(FMul(tidalVolume, Num(breathCount)), Num(60))
    ELSE LET rising == Gt0(At(window, j)) /\ Le0(At(window, j - 1))
             inInhNow == inInh \/ rising
         IN  WindowVentFrom(window, j + 1, rate,
                 IF inInhNow /\ Gt0(At(window, j))
                 THEN FAdd(tidalVolume, FDiv(NumAbs(At(window, j)), rate))
                 ELSE tidalVolume,
                 IF rising THEN breathCount + 1 ELSE breathCount,
                 inInhNow /\ ~Le0(At(window, j)))

\* One iteration of
\* for (let i = 0; i < flowData.length - windowSize; i += stepSize).
\* The model stops following a run that has pushed MaxWindows values.
WindowStep ==
    /\ segPc = "windows"
    /\ mvI < Len(flowData) - WindowSize(samplingRate)
    /\ Len(minuteVent) < MaxWindows
    /\ minuteVent' =
           Append(minuteVent,
                  WindowVentFrom(Slice(flowData, mvI, mvI + WindowSize(samplingRate)),
                                 1, samplingRate, Num(0), 0, FALSE))
    /\ mvI' = mvI + StepSize(samplingRate)
    /\ UNCHANGED <<flowData, samplingRate, segPc, segI, breaths, inInspiration,
                   inspirationStart, currentBreath>>
    /\ UNCHANGED <<settings, flScores, qualifying, arousalList,
                   fftCalls, totalPower, periodicityIndex, result>>
    /\ UNCHANGED <<engineVars, edfVars>>

\* The loop's exit: i < flowData.length - windowSize is false.
WindowExit ==
    /\ segPc = "windows"
    /\ ~(mvI < Len(flowData) - WindowSize(samplingRate))
    /\ segPc' = "windowed"
    /\ UNCHANGED <<flowData, samplingRate, segI, breaths, inInspiration,
                   inspirationStart, currentBreath>>
    /\ UNCHANGED procVars
    /\ UNCHANGED <<engineVars, edfVars>>

(***************************************************************************)
(* Regularity and periodicity.                                             *)
(***************************************************************************)
RECURSIVE RootFrom(_, _)
\* The least r from r on with r * r >= n.
RootFrom(n, r) == IF r * r >= n THEN r ELSE RootFrom(n, r + 1)

\* Math.sqrt: computed when the root is rational.
USqrt(x) ==
    CASE x.k = "unk" -> Unk
      [] x.k = "nan" -> NaN
      [] x.k = "inf" -> IF x.n > 0 THEN x ELSE NaN
      [] x.n < 0 -> IF x.k = "apx" THEN Unk ELSE NaN
      [] OTHER -> IF RootFrom(x.n, 0) * RootFrom(x.n, 0) = x.n
                     /\ RootFrom(x.d, 1) * RootFrom(x.d, 1) = x.d
                  THEN Rounded(Fin(RootFrom(x.n, 0), RootFrom(x.d, 1)), IsExact(x))
                  ELSE Unk

\* Math.cos(angle) and Math.sin(angle) of angle = -2 * Math.PI * k / N,
\* 0 <= k < N / 2: rational at k = 0 and at the quarter turn.
Cos(k, N) == IF k = 0 THEN Num(1) ELSE IF 4 * k = N THEN Num(0) ELSE Unk

Sin(k, N) == IF k = 0 THEN Num(0) ELSE IF 4 * k = N THEN Num(-1) ELSE Unk

RECURSIVE CeilLog2(_)
\* Math.ceil(Math.log2(N)), N >= 1.
CeilLog2(N) == IF N <= 1 THEN 0 ELSE 1 + CeilLog2((N + 1) \div 2)

\* A faulty padding, to test C14 against: the series is padded to an even
\* length.
PaddedLengthEven(N) == N + (N % 2)

\* Math.pow(2, Math.ceil(Math.log2(N)))
PaddedLength(N) == 2 ^ CeilLog2(N)

\* new Array(count).fill(value)
Filled(count, value) == [j \in 1..count |-> value]

\* x.filter((_, i) => i % 2 === parity)
EveryOther(x, parity) ==
    [j \in 1..((Len(x) + 1 - parity) \div 2) |-> At(x, 2 * (j - 1) + parity)]

RECURSIVE Fft(_)
\* const fft = (x) => ...  The value is the array returned and, which the
\* code does not store, the calls made: the length of each call's input and
\* whether the call took the re-padding branch.
Fft(x) ==
    LET N == Len(x) IN
    IF N <= 1
    THEN [out |-> x, calls |-> <<[length |-> N, repadded |-> FALSE]>>]
    ELSE IF N % 2 # 0
    THEN LET padded == x \o Filled(PaddedLength(N) - N, [re |-> Num(0), im |-> Num(0)])
             inner == Fft(padded)
         IN  [out |-> inner.out,
              calls |-> <<[length |-> N, repadded |-> TRUE]>> \o inner.calls]
    ELSE LET even == Fft(EveryOther(x, 0))
             odd == Fft(EveryOther(x, 1))
             T(k) == [re |-> FAdd(FMul(Cos(k, N), At(odd.out, k).re),
                                  NumNeg(FMul(Sin(k, N), At(odd.out, k).im))),
                      im |-> FAdd(FMul(Cos(k, N), At(odd.out, k).im),
                                  FMul(Sin(k, N), At(odd.out, k).re))]
         IN  [out |-> [j \in 1..N |->
                          IF j <= N \div 2
                          THEN [re |-> FAdd(At(even.out, j - 1).re, T(j - 1).re),
                                im |-> FAdd(At(even.out, j - 1).im, T(j - 1).im)]
                          ELSE LET k == j - 1 - N \div 2 IN
                               [re |-> FAdd(At(even.out, k).re, NumNeg(T(k).re)),
                                im |-> FAdd(At(even.out, k).im, NumNeg(T(k).im))]],
              calls |-> <<[length |-> N, repadded |-> FALSE]>>
                        \o even.calls \o odd.calls]

\* minuteVent.map(v => v - mvMean)
Detrended(mv) == [j \in 1..Len(mv) |-> FSub(mv[j], MeanOf(mv))]

\* paddedForFFT.map(v => ({ re: v, im: 0 })) of the series padded with zeros.
PaddedForFFT(mv) ==
    LET padded == Detrended(mv) \o Filled(PaddedLength(Len(mv)) - Len(mv), Num(0))
    IN  [j \in 1..Len(padded) |-> [re |-> padded[j], im |-> Num(0)]]

\* spectrum.slice(0, n / 2).map(c => Math.sqrt(c.re * c.re + c.im * c.im))
Power(spectrum, n) ==
    LET half == Slice(spectrum, 0, n \div 2)
    IN  [j \in 1..Len(half) |->
            USqrt(FAdd(FMul(half[j].re, half[j].re), FMul(half[j].im, half[j].im)))]

\* power.filter((p, i) => freqs[i] >= 0.01 && freqs[i] <= 0.03), the bins
\* left out set to 0, with freqs[i] = i / (n * dt) and dt = 5.
InBand(power, n) ==
    [j \in 1..Len(power) |->
        IF /\ ~NumLt(Fin(j - 1, n * 5), Fin(1, 100))
           /\ ~NumLt(Fin(3, 100), Fin(j - 1, n * 5))
        THEN power[j] ELSE Num(0)]

\* Math.min(100, (pbPower / totalPower) * 200)
PeriodicityOf(pbPower, total) ==
    MathMin(Num(100), FMul(FDiv(pbPower, total), Num(200)))

\* Math.abs(a - b) > r with r = 0.2 * Math.sqrt(variance), compared by the
\* squares of its two sides taken as n/d.
Differs(a, b, variance) ==
    NumLt(FDiv(variance, Num(25)), FMul(FSub(a, b), FSub(a, b)))

\* countMatches(m)
CountMatches(mv, m) ==
    LET variance == MeanOf([j \in 1..Len(mv) |->
                       FMul(FSub(mv[j], MeanOf(mv)), FSub(mv[j], MeanOf(mv)))])
    IN  Cardinality({p \in (0..(Len(mv) - m - 1)) \X (0..(Len(mv) - m - 1)) :
            /\ p[1] < p[2]
            /\ \A k \in 0..(m - 1) :
                  ~Differs(At(mv, p[1] + k), At(mv, p[2] + k), variance)})

\* Math.max(0, Math.min(100, 100 - (sampleEntropy / 2.5) * 100)) with
\* sampleEntropy = (B === 0 || A === 0) ? 0 : -Math.log(A / B); the
\* logarithm is computed when A = B.
RegularityOf(mv) ==
    IF Len(mv) = 0 THEN Num(0)
    ELSE IF CountMatches(mv, 2) = 0 \/ CountMatches(mv, 3) = 0 THEN Num(100)
    ELSE IF CountMatches(mv, 3) = CountMatches(mv, 2) THEN Num(100)
    ELSE Unk

\* x.toFixed(1), as the number its text denotes: x rounded to one decimal,
\* halves away from zero; "NaN" and "Infinity" of NaN and Infinity.  The
\* text of a value near a half that is not held exactly is not known.
ToFixed1(x) ==
    IF ~IsFinite(x) THEN x
    ELSE IF ~IsExact(x) /\ (20 * Abs(x.n) + x.d) % (2 * x.d) = 0 THEN Unk
    ELSE Fin(Sign(x.n) * ((20 * Abs(x.n) + x.d) \div (2 * x.d)), 10)

\* The rest of process: regularity, periodicity and the object returned.
SpectralAnalysis ==
    /\ segPc = "windowed"
    /\ segPc' = "returned"
    /\ IF Len(minuteVent) > 0
       THEN LET n == PaddedLength(Len(minuteVent))
                transform == Fft(PaddedForFFT(minuteVent))
                power == Power(transform.out, n)
            IN  /\ fftCalls' = transform.calls
                /\ totalPower' = SumFrom(power, 1)
                /\ periodicityIndex' =
                       PeriodicityOf(SumFrom(InBand(power, n), 1), SumFrom(power, 1))
       ELSE /\ fftCalls' = <<>>
            /\ totalPower' = Undefined
            /\ periodicityIndex' = Num(0)
    /\ result' =
           [wobbleFL |-> ToFixed1(FlScore(flScores)),
            wobbleArousal |->
                ToFixed1(ArousalRate(flowData, breaths, samplingRate, arousalList)),
            wobbleRegularity |-> ToFixed1(RegularityOf(minuteVent)),
            wobblePeriodicity |-> ToFixed1(periodicityIndex')]
    /\ UNCHANGED <<flowData, samplingRate, segI, breaths, inInspiration,
                   inspirationStart, currentBreath>>
    /\ UNCHANGED <<settings, flScores, qualifying, arousalList, mvI, minuteVent>>
    /\ UNCHANGED <<engineVars, edfVars>>

(***************************************************************************)
(* Inputs of the whole of process: three families of waveforms.            *)
(***************************************************************************)

\* Settings.current as constructed: { ...DEFAULT_SETTINGS }
DefaultSettings ==
    [minBreathDurationSec |-> Fin(1, 2), maxBreathDurationSec |-> Num(20),
     flTopPercentage |-> Fin(1, 2), flFlatnessTarget |-> Fin(1, 20),
     giExtrapolationSamples |-> Num(25), giTopThreshold90 |-> Fin(9, 10),
     giGreyZoneUpper |-> Num(5), giGreyZoneLower |-> Num(-10),
     arousalBaselineWindowSec |-> Num(120),
     arousalRateIncreaseMin |-> Fin(1, 5), arousalVolIncreaseMin |-> Fin(3, 10)]

\* An inspiration of len samples: 4 at the places in peaks, low elsewhere,
\* all divided by den.
InspShape(len, peaks, low, den) ==
    [j \in 1..len |-> IF j \in peaks THEN Fin(4, den) ELSE Fin(low, den)]

InspShapes ==
    UNION {{InspShape(len, peaks, low, 1) :
               peaks \in {{1}, {3}, {len}, {1, 2}, {1, len}}, low \in {1, 3}} :
           len \in 9..MaxInspLen}
    \cup {InspShape(MaxInspLen, {3}, 1, 100)}

\* One or two long inspirations, each between samples of -1: the waveforms
\* the flow-limitation step scores.
FlInputs ==
    {[flowData |-> <<Num(-1)>> \o a \o <<Num(-1)>>, samplingRate |-> Num(25),
      settings |-> st] :
        a \in InspShapes,
        st \in {DefaultSettings, [DefaultSettings EXCEPT !.flTopPercentage = Fin(9, 10)],
                EmptyObject}}
    \cup
    {[flowData |-> <<Num(-1)>> \o a \o <<Num(-1)>> \o b \o <<Num(-1)>>,
      samplingRate |-> Num(25), settings |-> DefaultSettings] :
        a \in InspShapes, b \in InspShapes}

\* A breath at 1 Hz: normal (4 s), fast (3 s) or big (three times the volume).
BreathPattern(kind) ==
    CASE kind = "normal" -> <<Num(1), Num(1), Num(-1), Num(-1)>>
      [] kind = "fast" -> <<Num(1), Num(1), Num(-1)>>
      [] kind = "big" -> <<Num(3), Num(3), Num(-1), Num(-1)>>

RECURSIVE BreathTrain(_, _)
\* The waveform of the breaths of kinds from the k-th on.
BreathTrain(kinds, k) ==
    IF k > Len(kinds) THEN <<>>
    ELSE BreathPattern(kinds[k]) \o BreathTrain(kinds, k + 1)

\* Six normal breaths, then up to MaxFreeBreaths breaths of any kind: the
\* waveforms the arousal estimator has a baseline for.
ArousalInputs ==
    {[flowData |-> <<Num(-1)>>
                   \o BreathTrain([j \in 1..6 |-> "normal"], 1)
                   \o BreathTrain(kinds, 1),
      samplingRate |-> Num(1), settings |-> DefaultSettings] :
        kinds \in UNION {[1..k -> {"normal", "fast", "big"}] : k \in 0..MaxFreeBreaths}}

\* The j-th sample of a periodic waveform.
PatternValue(pattern, j) ==
    CASE pattern = "zero" -> Num(0)
      [] pattern = "regular" -> IF (j - 1) % 4 < 2 THEN Num(1) ELSE Num(-1)
      [] pattern = "growing" -> IF (j - 1) % 4 < 2 THEN Num(1 + (j \div 8)) ELSE Num(-1)
      [] pattern = "alternating" -> IF j % 2 = 0 THEN Num(2) ELSE Num(-1)

\* Slowly sampled waveforms, at most MaxWindows - 1 windows long at 0.2 Hz:
\* the waveforms the window loop runs on, also at rates below 0.2 Hz.
WindowInputs ==
    {[flowData |-> [j \in 1..len |-> PatternValue(pattern, j)],
      samplingRate |-> rate, settings |-> DefaultSettings] :
        len \in 0..(WindowSize(Fin(1, 5)) + MaxWindows - 1),
        pattern \in {"zero", "regular", "growing", "alternating"},
        rate \in {Fin(1, 20), Fin(1, 10), Fin(1, 5), Fin(1, 4)}}

ProcessInputs == FlInputs \cup ArousalInputs \cup WindowInputs

\* The variables of the later steps before process assigns them.
ProcUnset ==
    /\ flScores = <<>>
    /\ qualifying = <<>>
    /\ arousalList = <<>>
    /\ mvI = 0
    /\ minuteVent = <<>>
    /\ fftCalls = <<>>
    /\ totalPower = Undefined
    /\ periodicityIndex = Num(0)
    /\ result = EmptyObject

ProcIdle == settings = EmptyObject /\ ProcUnset

\* process was called: the state before the scan's first iteration.
ProcessStart ==
    /\ \E input \in ProcessInputs :
          /\ flowData = input.flowData
          /\ samplingRate = input.samplingRate
          /\ settings = input.settings
    /\ segPc = "scan"
    /\ segI = 1
    /\ breaths = <<>>
    /\ inInspiration = FALSE
    /\ inspirationStart = 0
    /\ currentBreath = 0
    /\ ProcUnset

NextProcess ==
    \/ ScanStep
    \/ ScanExit
    \/ FlowLimitation
    \/ ArousalEstimation
    \/ WindowStep
    \/ WindowExit
    \/ SpectralAnalysis

(***************************************************************************)
(* Claims about the later steps of process, checked under SpecProcess.     *)
(***************************************************************************)
Max(S) == CHOOSE x \in S : \A y \in S : y <= x

\* C13 (vocabulary): the places in the k-th breath's inspiration whose
\* normalized flow is above flTopPercentage.
C13_Above(k) ==
    LET normalizedFlow == NormalizedFlow(InspFlow(flowData, breaths[k]))
    IN  {j \in 1..Len(normalizedFlow) :
            NumLt(SettingOr(settings, "flTopPercentage", Fin(1, 2)), normalizedFlow[j])}

\* C13: a breath contributes a flatness score only if a first and a last
\* inspiratory index with normalized flow above flTopPercentage both exist
\* and the last is strictly greater than the first; a breath with exactly
\* one such sample contributes no score.
C13_ScoreNeedsLastAfterFirst ==
    segPc \in {"flDone", "windows", "windowed", "returned"} =>
        \A e \in 1..Len(flScores) :
            /\ C13_Above(flScores[e].breath) # {}
            /\ Max(C13_Above(flScores[e].breath)) > Min(C13_Above(flScores[e].breath))

\* C11 (vocabulary): the times recorded, and a - b < 15 for two times.
C11_Recorded == {arousalList[j].time : j \in 1..Len(arousalList)}

C11_Within15(a, b) == NumLt(NumSub(a, b), Num(15))

\* C11: a breath that passes the threshold test is recorded exactly when no
\* arousal recorded before it is less than 15 seconds before it; any two
\* consecutive recorded arousals are at least 15 seconds apart; and of two
\* passing breaths within 15 seconds of each other, with nothing recorded
\* before them, only the first is recorded.
C11_Debounced ==
    segPc \in {"windows", "windowed", "returned"} =>
        /\ \A j \in 1..Len(qualifying) :
              qualifying[j] \in C11_Recorded <=>
                  ~\E a \in C11_Recorded :
                      NumLt(a, qualifying[j]) /\ C11_Within15(qualifying[j], a)
        /\ C11_Recorded \subseteq {qualifying[j] : j \in 1..Len(qualifying)}
        /\ \A j \in 1..(Len(arousalList) - 1) :
              /\ NumLt(arousalList[j].time, arousalList[j + 1].time)
              /\ ~C11_Within15(arousalList[j + 1].time, arousalList[j].time)
        /\ (Len(qualifying) >= 2 /\ C11_Within15(qualifying[2], qualifying[1])) =>
              /\ arousalList[1].time = qualifying[1]
              /\ qualifying[2] \notin C11_Recorded
              /\ Len(qualifying) = 2 => Len(arousalList) = 1

\* C11 witness: three breaths passed the test; the second, less than 15
\* seconds after the first, was suppressed, and the third, exactly 15
\* seconds after the first, was recorded.
C11_Witness ==
    /\ segPc = "returned"
    /\ Len(qualifying) = 3
    /\ Len(arousalList) = 2
    /\ arousalList[1].time = qualifying[1]
    /\ arousalList[2].time = qualifying[3]
    /\ NumSub(qualifying[3], qualifying[1]) = Num(15)

\* C15: the window loop always advances: an iteration that stays in the
\* loop leaves it with a greater index, so the loop exits and process
\* terminates, also for sampling rates below 0.2 Hz.
C15_WindowLoopAdvances ==
    [][(segPc = "windows" /\ segPc' = "windows") => mvI' > mvI]_vars

\* C14 (vocabulary): n is a power of two.
C14_IsPowerOfTwo(n) == \E e \in 0..n : 2 ^ e = n

\* C14: the series is zero-padded once, before the first call of the
\* transform: every call of fft, at every depth, is given an input whose
\* length is a power of two, the first one at least the series' length, and
\* no call takes the re-padding branch.
C14_PowerOfTwoAtEveryCall ==
    (segPc = "returned" /\ Len(minuteVent) > 0) =>
        /\ Len(fftCalls) > 0
        /\ fftCalls[1].length >= Len(minuteVent)
        /\ \A c \in 1..Len(fftCalls) :
              /\ C14_IsPowerOfTwo(fftCalls[c].length)
              /\ ~fftCalls[c].repadded

\* C14 witness: a series of 5 values was transformed: one call on 8 values
\* and the 14 calls below it.
C14_Witness ==
    /\ segPc = "returned"
    /\ Len(minuteVent) = 5
    /\ Len(fftCalls) = 15
    /\ fftCalls[1].length = 8

\* C12: when the total spectral power of the detrended series is 0, the
\* periodicity index process returns is 0, never a non-finite value.
C12_ZeroPowerGivesZero ==
    (segPc = "returned" /\ Len(minuteVent) > 0 /\ IsZero(totalPower)) =>
        /\ periodicityIndex = Num(0)
        /\ result.wobblePeriodicity = Num(0)

InitSeg == SegStart /\ ProcIdle /\ EngineIdle /\ EdfIdle

SpecSeg == InitSeg /\ [][NextSeg]_vars

InitEngine == EngineStart /\ SegIdle /\ ProcIdle /\ EdfIdle

SpecEngine == InitEngine /\ [][NextEngine]_vars

InitEDF == EdfStart /\ EngineIdle /\ SegIdle /\ ProcIdle

SpecEDF == InitEDF /\ [][NextEDF]_vars

InitProcess == ProcessStart /\ EngineIdle /\ EdfIdle

SpecProcess == InitProcess /\ [][NextProcess]_vars

====
